---- MODULE Spec2Model ----
(***************************************************************************)
(* Model of _modules/maas.py: the salt execution module that lists, gets,  *)
(* creates, deletes and updates MAAS clusters (nodegroups) over HTTP.      *)
(*                                                                         *)
(* Python values are tagged records: Str(s), Dict(d), Bool(b) and PyNone.  *)
(* A Python dict is a TLA+ function whose domain is a set of strings.      *)
(* An operation's outcome is Return(v) or Raise(exception class name).     *)
(***************************************************************************)
EXTENDS Integers, Sequences, FiniteSets, TLC

VARIABLES
    config,     \* the minion configuration read through __salt__['config.get']
    listing,    \* what the remote answers to GET nodegroups/ right now
    pc,         \* "idle", or "second_lookup" inside cluster_update (line 182)
    op,         \* the operation called last ("none" before any call)
    args,       \* the arguments of that call
    frame,      \* locals of a cluster_update suspended between its two lookups
    requests,   \* the HTTP requests issued by that call, in order
    result      \* what the call returned or raised

vars == <<config, listing, pc, op, args, frame, requests, result>>

\* ---------------------------------------------------------------- bounds
MaxLen == 2

\* ---------------------------------------------------------------- values
Str(s) == [t |-> "str", s |-> s]
Dict(d) == [t |-> "dict", d |-> d]
Bool(b) == [t |-> "bool", b |-> b]
PyNone == [t |-> "none"]
EmptyDict == [k \in {} |-> k]

Return(v) == [kind |-> "return", val |-> v]
Raise(e) == [kind |-> "raise", exc |-> e]
NoResult == [kind |-> "none"]

\* Python truth value of an object
Truthy(v) ==
    CASE v.t = "none" -> FALSE
      [] v.t = "str"  -> v.s # ""
      [] v.t = "dict" -> DOMAIN v.d # {}
      [] v.t = "bool" -> v.b

\* dict.get(k, default) and dict.get(k)
DictGetDefault(d, k, default) == IF k \in DOMAIN d THEN d[k] ELSE default
DictGet(d, k) == DictGetDefault(d, k, PyNone)

\* d[k] = v
DictSet(d, k, v) == [x \in DOMAIN d \cup {k} |-> IF x = k THEN v ELSE d[x]]

\* ---------------------------------------------------------------- inputs
Names == {"a", "name", "Error"}
Uuids == {"1", "2"}
Clusters == {[cluster_name |-> Str(n), uuid |-> Str(u)] : n \in Names, u \in Uuids}
SeqsUpTo(S, n) == UNION {[1..k -> S] : k \in 0..n}
Listings == SeqsUpTo(Clusters, MaxLen)

ConfigToken == "cfgkey:cfgtoken:cfgsecret"
ConfigUrl == "https://maas.domain.com/"
OverrideToken == "ovrkey:ovrtoken:ovrsecret"
OverrideUrl == "https://other.maas/"

SubDicts(d) == {[k \in K |-> d[k]] : K \in SUBSET DOMAIN d}
Configs == SubDicts([x \in {"maas.token", "maas.url"} |->
                        IF x = "maas.token" THEN Str(ConfigToken) ELSE Str(ConfigUrl)])
ConnectionArgs == SubDicts([x \in {"connection_token", "connection_url"} |->
                        IF x = "connection_token" THEN Str(OverrideToken) ELSE Str(OverrideUrl)])

Opt(S) == {PyNone} \cup {Str(s) : s \in S}

NoArgs == [cluster_name |-> PyNone, cluster_id |-> PyNone, old_cluster_name |-> PyNone,
           new_cluster_name |-> PyNone, domain |-> PyNone, status |-> PyNone,
           connection_args |-> EmptyDict]

\* ---------------------------------------------------------------- _auth
prefix == "maas."

ConfigGet(key, default) == DictGetDefault(config, key, default)

get(connection_args, key, default) ==
    DictGetDefault(connection_args, "connection_" \o key, ConfigGet(prefix \o key, default))

_auth(connection_args) ==
    LET api_token == get(connection_args, "token", PyNone)
        api_url == get(connection_args, "url", Str("https://localhost/"))
    IN  IF api_url.t # "str" THEN Raise("TypeError")
        ELSE IF api_token.t # "str" THEN Raise("TypeError")
        ELSE Return([token |-> api_token.s, url |-> api_url.s])

\* ---------------------------------------------------------------- HTTP
HttpGet(maas, path) ==
    [method |-> "GET", path |-> path, token |-> maas.token, url |-> maas.url,
     body |-> EmptyDict]
HttpPut(maas, path, body) ==
    [method |-> "PUT", path |-> path, token |-> maas.token, url |-> maas.url,
     body |-> body]

Outcome(reqs, res) == [requests |-> reqs, result |-> res]

\* ---------------------------------------------------------------- cluster_get
NotFound == "Error" :> Str("Could not find specified cluster")

\* the string under which a value is used as a dict key (None never occurs as
\* a cluster_name in Clusters; the case is kept for totality)
KeyOf(v) == IF v.t = "str" THEN v.s ELSE "None"

RECURSIVE cluster_get_scan_last(_, _, _)
cluster_get_scan_last(object_list, i, cluster_name) ==
    IF i > Len(object_list) THEN NotFound
    ELSE LET j == Len(object_list) + 1 - i
             cluster == object_list[j]
         IN  IF DictGet(cluster, "cluster_name") = cluster_name
             THEN KeyOf(DictGet(cluster, "cluster_name")) :> Dict(cluster)
             ELSE cluster_get_scan_last(object_list, i + 1, cluster_name)

\* lines 88-91: the first record whose cluster_name is the one asked for
RECURSIVE cluster_get_scan(_, _, _)
cluster_get_scan(object_list, i, cluster_name) ==
    IF i > Len(object_list) THEN NotFound
    ELSE LET cluster == object_list[i]
         IN  IF DictGet(cluster, "cluster_name") = cluster_name
             THEN KeyOf(DictGet(cluster, "cluster_name")) :> Dict(cluster)
             ELSE cluster_get_scan(object_list, i + 1, cluster_name)

cluster_get(cluster_name, connection_args) ==
    LET maas == _auth(connection_args)
    IN  IF maas.kind = "raise" THEN Outcome(<<>>, maas)
        ELSE Outcome(<<HttpGet(maas.val, "nodegroups/")>>,
                     Return(cluster_get_scan(listing, 1, cluster_name)))

\* ---------------------------------------------------------------- cluster_list
RECURSIVE cluster_list_loop_short(_, _, _)
cluster_list_loop_short(object_list, i, ret) ==
    IF i >= Len(object_list) THEN ret
    ELSE LET cluster == object_list[i]
         IN  cluster_list_loop_short(object_list, i + 1,
                 DictSet(ret, KeyOf(DictGet(cluster, "cluster_name")), Dict(cluster)))

\* lines 113-115: ret[cluster.get('cluster_name')] = cluster, in listing order
RECURSIVE cluster_list_loop(_, _, _)
cluster_list_loop(object_list, i, ret) ==
    IF i > Len(object_list) THEN ret
    ELSE LET cluster == object_list[i]
         IN  cluster_list_loop(object_list, i + 1,
                 DictSet(ret, KeyOf(DictGet(cluster, "cluster_name")), Dict(cluster)))

cluster_list(connection_args) ==
    LET maas == _auth(connection_args)
    IN  IF maas.kind = "raise" THEN Outcome(<<>>, maas)
        ELSE Outcome(<<HttpGet(maas.val, "nodegroups/")>>,
                     Return(cluster_list_loop(listing, 1, EmptyDict)))

\* ---------------------------------------------------------------- cluster_create
\* line 128 calls the name auth, which the module never defines
cluster_create(cluster_name, connection_args) ==
    Outcome(<<>>, Raise("NameError"))

\* ---------------------------------------------------------------- cluster_delete
\* line 155 reads the name project_name, which the function never binds
cluster_delete(cluster_name, connection_args) ==
    LET maas == _auth(connection_args)
    IN  IF maas.kind = "raise" THEN Outcome(<<>>, maas)
        ELSE Outcome(<<>>, Raise("NameError"))

\* ---------------------------------------------------------------- cluster_update
NoIdOrName == "Error" :> Str("No cluster id or name specified")
StatusTrue == "Status" :> Bool(TRUE)

\* lines 187-194: the fields supplied are written into the dict cluster
cluster_update_fields(cluster, new_cluster_name, domain, status) ==
    LET c1 == IF Truthy(new_cluster_name)
              THEN DictSet(cluster, "cluster_name", new_cluster_name) ELSE cluster
        c2 == IF Truthy(domain) THEN DictSet(c1, "name", domain) ELSE c1
    IN  IF Truthy(status) THEN DictSet(c2, "status", status) ELSE c2

\* lines 182-202: the second lookup, the PUT and the status record
cluster_update_tail(a, f, reqs) ==
    LET lookup == cluster_get(a.old_cluster_name, EmptyDict)
        got == IF lookup.result.kind = "return"
               THEN DictGet(lookup.result.val, KeyOf(a.old_cluster_name)) ELSE PyNone
        cluster_id == IF got.t = "dict" THEN DictGet(got.d, "uuid") ELSE PyNone
        cluster == cluster_update_fields(f.cluster, a.new_cluster_name, a.domain, a.status)
    IN  IF lookup.result.kind = "raise"
        THEN Outcome(reqs \o lookup.requests, lookup.result)
        ELSE IF got.t # "dict"
        THEN Outcome(reqs \o lookup.requests, Raise("AttributeError"))
        ELSE IF cluster_id.t # "str"
        THEN Outcome(reqs \o lookup.requests, Raise("TypeError"))
        ELSE Outcome(reqs \o lookup.requests \o
                        <<HttpPut(f.maas, "nodegroups/" \o cluster_id.s \o "/", cluster)>>,
                     Return(StatusTrue))

Init ==
    /\ config \in Configs
    /\ listing \in Listings
    /\ pc = "idle"
    /\ op = "none"
    /\ args = NoArgs
    /\ frame = EmptyDict
    /\ requests = <<>>
    /\ result = NoResult

Finish(o, a, out) ==
    /\ pc' = "idle"
    /\ op' = o
    /\ args' = a
    /\ frame' = EmptyDict
    /\ requests' = out.requests
    /\ result' = out.result
    /\ UNCHANGED <<config, listing>>

\* no call is in progress and none is waiting to be read by the caller
Ready == pc = "idle" /\ op = "none"

CallArgs(a) == [x \in DOMAIN NoArgs |-> IF x \in DOMAIN a THEN a[x] ELSE NoArgs[x]]

Call_cluster_list ==
    /\ Ready
    /\ \E c \in ConnectionArgs :
          Finish("cluster_list", CallArgs([connection_args |-> c]), cluster_list(c))

Call_cluster_get ==
    /\ Ready
    /\ \E n \in Opt(Names), c \in ConnectionArgs :
          Finish("cluster_get", CallArgs([cluster_name |-> n, connection_args |-> c]),
                 cluster_get(n, c))

Call_cluster_create ==
    /\ Ready
    /\ \E n \in Opt(Names), c \in ConnectionArgs :
          Finish("cluster_create", CallArgs([cluster_name |-> n, connection_args |-> c]),
                 cluster_create(n, c))

Call_cluster_delete ==
    /\ Ready
    /\ \E n \in Opt(Names), c \in ConnectionArgs :
          Finish("cluster_delete", CallArgs([cluster_name |-> n, connection_args |-> c]),
                 cluster_delete(n, c))

\* lines 173-185: authentication, then the branch on cluster_id / old_cluster_name
\* up to and including the first lookup (line 178)
Call_cluster_update ==
    /\ Ready
    /\ \E cluster_id \in Opt({"1"}), old_cluster_name \in Opt(Names),
          new_cluster_name \in Opt({"b"}), domain \in Opt({"d.example"}),
          status \in Opt({"ready"}), c \in ConnectionArgs :
          LET a == [cluster_name |-> PyNone, cluster_id |-> cluster_id,
                    old_cluster_name |-> old_cluster_name,
                    new_cluster_name |-> new_cluster_name,
                    domain |-> domain, status |-> status, connection_args |-> c]
              maas == _auth(c)
              lookup == cluster_get(old_cluster_name, EmptyDict)
          IN  IF maas.kind = "raise"
              THEN Finish("cluster_update", a, Outcome(<<>>, maas))
              ELSE IF ~Truthy(cluster_id) /\ Truthy(old_cluster_name)
              THEN IF lookup.result.kind = "raise"
                   THEN Finish("cluster_update", a, lookup)
                   ELSE IF Truthy(DictGet(lookup.result.val, "Error"))
                   THEN Finish("cluster_update", a, lookup)
                   ELSE /\ pc' = "second_lookup"
                        /\ op' = "cluster_update"
                        /\ args' = a
                        /\ frame' = [maas |-> maas.val, cluster |-> lookup.result.val]
                        /\ requests' = lookup.requests
                        /\ result' = NoResult
                        /\ UNCHANGED <<config, listing>>
              ELSE Finish("cluster_update", a, Outcome(<<>>, Return(NoIdOrName)))

\* lines 182-202, run against the listing the remote holds by then
Resume_cluster_update ==
    /\ pc = "second_lookup"
    /\ pc' = "idle"
    /\ LET out == cluster_update_tail(args, frame, requests)
       IN  /\ requests' = out.requests
           /\ result' = out.result
    /\ UNCHANGED <<config, listing, op, args, frame>>

\* the remote's nodegroups change: before a call, or between the two lookups
\* of a cluster_update
RemoteChange ==
    /\ pc = "second_lookup" \/ op = "none"
    /\ listing' \in Listings \ {listing}
    /\ UNCHANGED <<config, pc, op, args, frame, requests, result>>

\* the caller has read the finished call's outcome; nothing of the call is kept
Discard ==
    /\ pc = "idle"
    /\ op # "none"
    /\ pc' = "idle"
    /\ op' = "none"
    /\ args' = NoArgs
    /\ frame' = EmptyDict
    /\ requests' = <<>>
    /\ result' = NoResult
    /\ UNCHANGED <<config, listing>>

Next ==
    \/ Call_cluster_list
    \/ Call_cluster_get
    \/ Call_cluster_create
    \/ Call_cluster_delete
    \/ Call_cluster_update
    \/ Resume_cluster_update
    \/ RemoteChange
    \/ Discard

Spec == Init /\ [][Next]_vars

\* ---------------------------------------------------------------- properties
Done(o) == pc = "idle" /\ op = o

\* a token is resolvable for a call: overridden per call, or configured
TokenResolvable(c) == "connection_token" \in DOMAIN c \/ "maas.token" \in DOMAIN config

\* positions of the listing's records that carry the cluster_name n
Matches(n) == {i \in DOMAIN listing : listing[i].cluster_name = n}
Least(S) == CHOOSE i \in S : \A j \in S : i <= j

Puts == {i \in DOMAIN requests : requests[i].method = "PUT"}
Gets == {i \in DOMAIN requests : requests[i].method = "GET"}

\* C1: with a resolvable token, cluster_list returns (never raises) a mapping
\* whose keys are exactly the cluster_name values of the listing, each key
\* mapped to a record of the listing carrying that name; the empty listing
\* gives the empty mapping.
C1_ListKeys ==
    (Done("cluster_list") /\ TokenResolvable(args.connection_args)) =>
        /\ result.kind = "return"
        /\ DOMAIN result.val = {listing[i].cluster_name.s : i \in DOMAIN listing}
        /\ \A k \in DOMAIN result.val :
              \E i \in DOMAIN listing :
                 /\ listing[i].cluster_name = Str(k)
                 /\ result.val[k] = Dict(listing[i])
        /\ (listing = <<>> => result.val = EmptyDict)

\* a listing that repeats a cluster_name on two different records was indexed
C1_Witness ==
    /\ Done("cluster_list")
    /\ result.kind = "return"
    /\ Len(listing) >= 2
    /\ listing[1].cluster_name = listing[2].cluster_name
    /\ listing[1] # listing[2]
    /\ DOMAIN result.val = {listing[1].cluster_name.s}

\* C2: with a resolvable token, cluster_get(name) returns {name: r} for the
\* first record r of the listing whose cluster_name is name, and returns the
\* value {'Error': 'Could not find specified cluster'} when there is none.
C2_GetFirst ==
    (Done("cluster_get") /\ TokenResolvable(args.connection_args)) =>
        /\ result.kind = "return"
        /\ IF Matches(args.cluster_name) # {}
           THEN result.val =
                    (args.cluster_name.s :> Dict(listing[Least(Matches(args.cluster_name))]))
           ELSE result.val = NotFound

\* the name asked for is carried by two different records, and one was returned
C2_Witness ==
    /\ Done("cluster_get")
    /\ result.kind = "return"
    /\ Cardinality(Matches(args.cluster_name)) >= 2
    /\ \E i, j \in Matches(args.cluster_name) : listing[i] # listing[j]
    /\ result.val # NotFound

\* C3: without a resolvable token every operation fails with a
\* ConfigurationError and issues no HTTP request.
C3_NoTokenConfigurationError ==
    (pc = "idle" /\ op # "none" /\ ~TokenResolvable(args.connection_args)) =>
        /\ result = Raise("ConfigurationError")
        /\ requests = <<>>

\* C4: cluster_update called with a cluster_id issues a PUT to
\* nodegroups/{cluster_id}/ with the supplied fields and returns {'Status': True}.
C4_UpdateById ==
    (Done("cluster_update") /\ Truthy(args.cluster_id)
        /\ TokenResolvable(args.connection_args)) =>
        /\ result = Return(StatusTrue)
        /\ \E i \in Puts :
              /\ requests[i].path = "nodegroups/" \o args.cluster_id.s \o "/"
              /\ requests[i].body =
                    cluster_update_fields(EmptyDict, args.new_cluster_name,
                                          args.domain, args.status)

\* C5: the body of the PUT of cluster_update holds cluster_name / name / status
\* exactly when new_cluster_name / domain / status was supplied.
C5_PartialUpdate ==
    \A i \in Puts :
        /\ "cluster_name" \in DOMAIN requests[i].body <=> Truthy(args.new_cluster_name)
        /\ "name" \in DOMAIN requests[i].body <=> Truthy(args.domain)
        /\ "status" \in DOMAIN requests[i].body <=> Truthy(args.status)

\* C6: with a resolvable token, cluster_update returns an {'Error': ...} value
\* and issues no PUT when (i) neither cluster_id nor old_cluster_name is given,
\* or (ii) old_cluster_name is given without cluster_id and no record of the
\* listing carries it; in (ii) the value is cluster_get's not-found result.
C6_UpdateStructuredErrors ==
    (Done("cluster_update") /\ frame = EmptyDict
        /\ TokenResolvable(args.connection_args) /\ ~Truthy(args.cluster_id)) =>
        /\ ~Truthy(args.old_cluster_name) =>
              /\ result.kind = "return"
              /\ Truthy(DictGet(result.val, "Error"))
              /\ Puts = {}
        /\ (Truthy(args.old_cluster_name) /\ Matches(args.old_cluster_name) = {}) =>
              /\ result = Return(NotFound)
              /\ Puts = {}

\* C7: every request of a call is made with the overriding connection_token /
\* connection_url when the call supplies one, and with the configured value
\* only for a key the call does not override.
C7_CredentialPrecedence ==
    \A i \in DOMAIN requests :
        LET c == args.connection_args
        IN  /\ "connection_token" \in DOMAIN c =>
                  requests[i].token = c["connection_token"].s
            /\ "connection_url" \in DOMAIN c =>
                  requests[i].url = c["connection_url"].s
            /\ ("connection_token" \notin DOMAIN c /\ "maas.token" \in DOMAIN config) =>
                  requests[i].token = config["maas.token"].s
            /\ ("connection_url" \notin DOMAIN c /\ "maas.url" \in DOMAIN config) =>
                  requests[i].url = config["maas.url"].s

\* C8: with valid credentials cluster_create returns a value: either
\* {'Error': 'Unable to resolve project'} with no request issued, or the
\* result of cluster_get after at most one create call.
C8_CreateReturns ==
    (Done("cluster_create") /\ TokenResolvable(args.connection_args)) =>
        /\ result.kind = "return"
        /\ \/ /\ result.val = ("Error" :> Str("Unable to resolve project"))
              /\ requests = <<>>
           \/ /\ result.val \in {NotFound} \cup
                    {n :> Dict(r) : n \in Names, r \in Clusters}
              /\ Cardinality({i \in DOMAIN requests : requests[i].method = "POST"}) <= 1

\* C9: a cluster_update by old_cluster_name whose first lookup found the name
\* returns {'Status': True} after GETs of nodegroups/ followed by exactly one
\* PUT, to nodegroups/{u}/ where u is the uuid of the record the first lookup
\* returned, whatever the remote does between the lookups.
C9_UpdateByNameTargetsFirstLookup ==
    (Done("cluster_update") /\ frame # EmptyDict) =>
        /\ result = Return(StatusTrue)
        /\ Puts = {Len(requests)}
        /\ \A i \in Gets : requests[i].path = "nodegroups/"
        /\ requests[Len(requests)].path =
              "nodegroups/" \o frame.cluster[args.old_cluster_name.s].d.uuid.s \o "/"

\* C10: the result of cluster_get has a truthy 'Error' entry exactly when no
\* record of the listing carries the name, and a cluster_update by name ends
\* on a failed lookup without a PUT only when the name is absent.
C10_ErrorMeansAbsent ==
    /\ (Done("cluster_get") /\ result.kind = "return") =>
          (Truthy(DictGet(result.val, "Error")) <=> Matches(args.cluster_name) = {})
    /\ (Done("cluster_update") /\ frame = EmptyDict /\ result.kind = "return"
          /\ ~Truthy(args.cluster_id) /\ Truthy(args.old_cluster_name)) =>
          Matches(args.old_cluster_name) = {}
====
